---- MODULE Spec2Model ----
(***************************************************************************)
(* Client-side view logic of the server-rendered table report page and of  *)
(* the storage usage chart.                                                *)
(*                                                                         *)
(*   src/unnamed/part_000   table script, URL variant: every interaction   *)
(*                          rewrites the query string of location.href     *)
(*   src/unnamed/part_001   table script, form variant: every interaction  *)
(*                          rewrites fields of the form #qform and submits *)
(*   src/static/storage.js  storage chart                                  *)
(*                                                                         *)
(* A JavaScript string is a sequence of one-character strings, so that     *)
(* startsWith, concatenation, encodeURIComponent and query parsing are     *)
(* computed and not assumed.  null / undefined is the value Null.          *)
(***************************************************************************)
EXTENDS Integers, Sequences, FiniteSets, TLC

VARIABLES
  page,       \* which script the document loads: "url", "form" or "storage"
  dom,        \* which elements the document has: form, clearBtn, clearSortsBtn, chips, canvas
  dataSort,   \* data-sort attribute of each th[data-col] (Null when absent)
  query,      \* the search parameters of window.location.href, in order
  fields,     \* the input elements of #qform, in document order
  win,        \* window.STORAGE_LABELS, STORAGE_ROOT_PCT, STORAGE_VOL_PCT
  pc,         \* "start" (document parsed, script not run), "ready", "loading"
  listeners,  \* the click listeners the script has registered
  charts,     \* the Chart objects constructed
  effects,    \* what the last click's handlers did, in order
  submitted,  \* the form data set of the last form.submit()
  last,       \* the last click: where it landed
  before,     \* query, fields and dataSort when the last click arrived
  clicks,     \* per column, handled sort clicks so far, modulo 3
  sortOnly,   \* the session started unsorted and has had sort clicks only
  run,        \* the current run of successive sort clicks on one column
  nclicks     \* clicks so far in the session

vars == <<page, dom, dataSort, query, fields, win, pc, listeners, charts,
          effects, submitted, last, before, clicks, sortOnly, run, nclicks>>

----------------------------------------------------------------------------
(* Bounds of the model *)

\* longest query string (in parameters) a session starts from
MaxParams == 2
\* longest STORAGE_* array
MaxPoints == 2
\* clicks in one session
MaxClicks == 2
\* clicks in one session of sort clicks only
MaxSortClicks == 4

----------------------------------------------------------------------------
(* Strings *)

Null == <<"null">>

Str(s) == IF s = Null THEN <<"n", "u", "l", "l">> ELSE s

\* x || ""
OrEmpty(x) == IF x = Null \/ x = <<>> THEN <<>> ELSE x

\* !x for a string or null
Falsy(x) == x = Null \/ x = <<>>

StartsWith(s, p) == Len(s) >= Len(p) /\ SubSeq(s, 1, Len(p)) = p

ASC == <<"a", "s", "c">>
DESC == <<"d", "e", "s", "c">>
UP == <<"u", "p">>
S_ == <<"s", "_">>
F_ == <<"f", "_">>
LIMIT == <<"l", "i", "m", "i", "t">>
FORMAT == <<"f", "o", "r", "m", "a", "t">>
HTML == <<"h", "t", "m", "l">>
FILTER == <<"f", "i", "l", "t", "e", "r">>
SORT == <<"s", "o", "r", "t">>
HUNDRED == <<"1", "0", "0">>

\* the columns of the table: the data-col of its th elements
Cols == {<<"a">>, <<"b">>}

----------------------------------------------------------------------------
(* URLSearchParams: a list of name-value pairs *)

Param(k, v) == [k |-> k, v |-> v]

\* Array.from(url.searchParams.keys())
SPKeys(q) == [i \in 1..Len(q) |-> q[i].k]

SPHas(q, name) == \E i \in 1..Len(q) : q[i].k = name

SPFirst(q, name) == CHOOSE i \in 1..Len(q) : q[i].k = name /\ \A j \in 1..(i - 1) : q[j].k # name

\* url.searchParams.get(name): the first value, null when there is none
SPGet(q, name) == IF SPHas(q, name) THEN q[SPFirst(q, name)].v ELSE Null

\* url.searchParams.delete(name): every pair of that name goes
SPDelete(q, name) == SelectSeq(q, LAMBDA p : p.k # name)

\* url.searchParams.set(name, value): the first pair of that name takes the
\* value and the others go; with no such pair, one is appended
SPSet(q, name, value) ==
  IF SPHas(q, name)
  THEN LET i == SPFirst(q, name)
       IN  SubSeq(q, 1, i - 1) \o <<Param(name, value)>>
             \o SPDelete(SubSeq(q, i + 1, Len(q)), name)
  ELSE Append(q, Param(name, value))

----------------------------------------------------------------------------
(* encodeURIComponent, and the parsing of a query string *)

Unreserved ==
  {"a", "b", "c", "d", "e", "f", "g", "h", "i", "j", "k", "l", "m", "n", "o",
   "p", "q", "r", "s", "t", "u", "v", "w", "x", "y", "z",
   "0", "1", "2", "3", "4", "5", "6", "7", "8", "9",
   "-", "_", ".", "!", "~", "*", "'", "(", ")"}

\* the escape sequences of the reserved characters the model uses
Escapes ==
  {<<"&", "2", "6">>, <<"=", "3", "D">>, <<"%", "2", "5">>, <<"+", "2", "B">>,
   <<" ", "2", "0">>, <<"#", "2", "3">>, <<"?", "3", "F">>, <<"/", "2", "F">>}

EscapeChar(c) ==
  IF c \in Unreserved THEN <<c>>
  ELSE LET e == CHOOSE e \in Escapes : e[1] = c IN <<"%", e[2], e[3]>>

RECURSIVE EncodeChars(_)
EncodeChars(s) == IF s = <<>> THEN <<>> ELSE EscapeChar(Head(s)) \o EncodeChars(Tail(s))

EncodeIdentity(s) == s

encodeURIComponent(s) == EncodeChars(s)

RECURSIVE PercentDecode(_)
PercentDecode(s) ==
  IF s = <<>> THEN <<>>
  ELSE IF Head(s) = "%" /\ Len(s) >= 3 /\ \E e \in Escapes : e[2] = s[2] /\ e[3] = s[3]
       THEN <<(CHOOSE e \in Escapes : e[2] = s[2] /\ e[3] = s[3])[1]>>
              \o PercentDecode(SubSeq(s, 4, Len(s)))
       ELSE <<IF Head(s) = "+" THEN " " ELSE Head(s)>> \o PercentDecode(Tail(s))

\* the position of the first c in s, Len(s) + 1 when there is none
IndexOf(s, c) ==
  IF \E i \in 1..Len(s) : s[i] = c
  THEN CHOOSE i \in 1..Len(s) : s[i] = c /\ \A j \in 1..(i - 1) : s[j] # c
  ELSE Len(s) + 1

RECURSIVE Split(_, _)
Split(s, c) ==
  LET i == IndexOf(s, c)
  IN  IF i > Len(s) THEN <<s>>
      ELSE <<SubSeq(s, 1, i - 1)>> \o Split(SubSeq(s, i + 1, Len(s)), c)

\* one name=value piece of a query string
ParsePair(piece) ==
  LET i == IndexOf(piece, "=")
  IN  Param(PercentDecode(SubSeq(piece, 1, i - 1)),
            PercentDecode(SubSeq(piece, i + 1, Len(piece))))

\* the search parameters of a URL string: what follows the first "?" up to
\* the first "#", cut at "&", empty pieces dropped
ParseQuery(href) ==
  LET noFrag == SubSeq(href, 1, IndexOf(href, "#") - 1)
      search == SubSeq(noFrag, IndexOf(noFrag, "?") + 1, Len(noFrag))
      pieces == SelectSeq(Split(search, "&"), LAMBDA x : x # <<>>)
  IN  [i \in 1..Len(pieces) |-> ParsePair(pieces[i])]

\* window.location.pathname
PATHNAME == <<"/", "t">>

----------------------------------------------------------------------------
(* The state a handler reads and writes, and what a handler returns *)

\* st: [query, fields, submitted, dataSort]; a handler returns the first
\* three as it leaves them, and the calls it made, in order:
\* "set", "delete" (URLSearchParams), "value" (an input's value assigned),
\* "href" (window.location.href assigned), "submit" (form.submit())
Result(q, fs, sub, eff) == [query |-> q, fields |-> fs, submitted |-> sub, effects |-> eff]

\* no listener, or a listener that returns at once
Nothing(st) == Result(st.query, st.fields, st.submitted, <<>>)

Times(n, x) == [i \in 1..n |-> x]

IsNav(e) == e \in {"href", "submit"}

----------------------------------------------------------------------------
(* The sort cycle, the same expression in both variants *)

NextSortStuck(current) == IF current = <<>> THEN ASC ELSE DESC

NextSort(current) ==
  IF current = <<>> THEN ASC ELSE IF current = ASC THEN DESC ELSE <<>>

----------------------------------------------------------------------------
(* URL variant: src/unnamed/part_000 *)

ClearAllKeepsLimit(k) == StartsWith(k, F_) \/ StartsWith(k, S_)

ClearAllMatches(k) == StartsWith(k, F_) \/ StartsWith(k, S_) \/ k = LIMIT

ClearSortsMatches(k) == StartsWith(k, S_)

\* for (const k of keys) url.searchParams.delete(k), over the keys kept by the if
RECURSIVE DeleteEach(_, _)
DeleteEach(url, keys) ==
  IF keys = <<>> THEN url ELSE DeleteEach(SPDelete(url, Head(keys)), Tail(keys))

clearAll(st) ==
  LET keys == SelectSeq(SPKeys(st.query), ClearAllMatches)
  IN  Result(DeleteEach(st.query, keys), st.fields, st.submitted,
             Times(Len(keys), "delete") \o <<"href">>)

clearSorts(st) ==
  LET keys == SelectSeq(SPKeys(st.query), ClearSortsMatches)
  IN  Result(DeleteEach(st.query, keys), st.fields, st.submitted,
             Times(Len(keys), "delete") \o <<"href">>)

\* the listener of a th[data-col]; onSort: the click landed in an element
\* with data-action='sort'
ThClickResetsOthers(st, col, onSort) ==
  IF ~onSort THEN Nothing(st)
  ELSE Result(SPSet(DeleteEach(st.query, SelectSeq(SPKeys(st.query), ClearSortsMatches)),
                    S_ \o Str(col), NextSort(OrEmpty(st.dataSort[col]))),
              st.fields, st.submitted, <<"set", "href">>)

thClick(st, col, onSort) ==
  IF ~onSort THEN Nothing(st)
  ELSE Result(SPSet(st.query, S_ \o Str(col), NextSort(OrEmpty(st.dataSort[col]))),
              st.fields, st.submitted, <<"set", "href">>)

\* the listener of #chips; inX, inChip: the click landed in a .x, in a .chip;
\* kind, col: the chip's data-kind and data-col
ChipsClickBoth(st, inX, inChip, kind, col) ==
  IF ~inX \/ ~inChip THEN Nothing(st)
  ELSE Result(SPDelete(SPDelete(st.query, F_ \o Str(col)), S_ \o Str(col)),
              st.fields, st.submitted, <<"delete", "delete", "href">>)

chipsClick(st, inX, inChip, kind, col) ==
  IF ~inX THEN Nothing(st)
  ELSE IF ~inChip THEN Nothing(st)
  ELSE LET u1 == IF kind = FILTER THEN SPDelete(st.query, F_ \o Str(col)) ELSE st.query
           u2 == IF kind = SORT THEN SPDelete(u1, S_ \o Str(col)) ELSE u1
       IN  Result(u2, st.fields, st.submitted,
                  (IF kind = FILTER THEN <<"delete">> ELSE <<>>)
                    \o (IF kind = SORT THEN <<"delete">> ELSE <<>>) \o <<"href">>)

UrlListenersNoGuard(d) ==
  (IF d.clearBtn THEN {"clearBtn"} ELSE {})
    \cup (IF d.clearSortsBtn THEN {"clearSortsBtn"} ELSE {})
    \cup {"th"}
    \cup (IF d.chips THEN {"chips"} ELSE {})

\* the listeners the script registers when it runs
UrlListeners(d) ==
  IF ~d.form THEN {}
  ELSE (IF d.clearBtn THEN {"clearBtn"} ELSE {})
         \cup (IF d.clearSortsBtn THEN {"clearSortsBtn"} ELSE {})
         \cup {"th"}
         \cup (IF d.chips THEN {"chips"} ELSE {})

----------------------------------------------------------------------------
(* Form variant: src/unnamed/part_001 *)

\* an input element of the form
Input(name, type, value) == [name |-> name, type |-> type, value |-> value]

\* the form data set form.submit() sends: every input's name and value
FormData(fs) == [i \in 1..Len(fs) |-> Param(fs[i].name, fs[i].value)]

SetValue(fs, i, v) == [fs EXCEPT ![i].value = v]

\* querySelector: the first element in document order, 0 for null
IsNamed(f, name) == f.name = name

IsHiddenNamed(f, name) == f.type = "hidden" /\ f.name = name

IsHiddenSort(f) == f.type = "hidden" /\ StartsWith(f.name, S_)

FirstNamed(fs, name) ==
  IF \E i \in 1..Len(fs) : IsNamed(fs[i], name)
  THEN CHOOSE i \in 1..Len(fs) : IsNamed(fs[i], name) /\ \A j \in 1..(i - 1) : ~IsNamed(fs[j], name)
  ELSE 0

FirstHiddenNamed(fs, name) ==
  IF \E i \in 1..Len(fs) : IsHiddenNamed(fs[i], name)
  THEN CHOOSE i \in 1..Len(fs) :
         IsHiddenNamed(fs[i], name) /\ \A j \in 1..(i - 1) : ~IsHiddenNamed(fs[j], name)
  ELSE 0

\* the href the clearBtn listener assigns
ClearHref(fs) ==
  LET limitInput == FirstNamed(fs, LIMIT)
      limit == IF limitInput # 0 THEN fs[limitInput].value ELSE HUNDRED
  IN  PATHNAME \o <<"?">> \o LIMIT \o <<"=">> \o encodeURIComponent(limit)
        \o <<"&">> \o FORMAT \o <<"=">> \o HTML

formClearBtn(st) ==
  Result(ParseQuery(ClearHref(st.fields)), st.fields, st.submitted, <<"href">>)

FormClearSortsAllHidden(st) ==
  LET fs == [i \in 1..Len(st.fields) |->
               IF st.fields[i].type = "hidden" THEN [st.fields[i] EXCEPT !.value = <<>>]
               ELSE st.fields[i]]
  IN  Result(st.query, fs, FormData(fs), <<"value", "submit">>)

formClearSorts(st) ==
  LET fs == [i \in 1..Len(st.fields) |->
               IF IsHiddenSort(st.fields[i]) THEN [st.fields[i] EXCEPT !.value = <<>>]
               ELSE st.fields[i]]
      n == Cardinality({i \in 1..Len(st.fields) : IsHiddenSort(st.fields[i])})
  IN  Result(st.query, fs, FormData(fs), Times(n, "value") \o <<"submit">>)

\* the listener of a [data-action="sort"] element inside th[data-col]
FormSortClickSubmitsFirst(st, col) ==
  LET next == NextSort(OrEmpty(st.dataSort[col]))
      hid == FirstHiddenNamed(st.fields, S_ \o col)
      fs == IF hid # 0 THEN SetValue(st.fields, hid, next) ELSE st.fields
  IN  Result(st.query, fs, FormData(st.fields),
             <<"submit">> \o (IF hid # 0 THEN <<"value">> ELSE <<>>))

formSortClick(st, col) ==
  LET current == OrEmpty(st.dataSort[col])
      next == NextSort(current)
      hid == FirstHiddenNamed(st.fields, S_ \o col)
      fs == IF hid # 0 THEN SetValue(st.fields, hid, next) ELSE st.fields
  IN  Result(st.query, fs, FormData(fs),
             (IF hid # 0 THEN <<"value">> ELSE <<>>) \o <<"submit">>)

\* the listener of a .x inside a .chip; kind, col: the chip's attributes
formChipClick(st, kind, col) ==
  IF Falsy(col) \/ Falsy(kind) THEN Nothing(st)
  ELSE IF kind = FILTER
  THEN LET inp == FirstNamed(st.fields, F_ \o col)
           fs == IF inp # 0 THEN SetValue(st.fields, inp, <<>>) ELSE st.fields
       IN  Result(st.query, fs, FormData(fs),
                  (IF inp # 0 THEN <<"value">> ELSE <<>>) \o <<"submit">>)
  ELSE IF kind = SORT
  THEN LET hid == FirstHiddenNamed(st.fields, S_ \o col)
           fs == IF hid # 0 THEN SetValue(st.fields, hid, <<>>) ELSE st.fields
       IN  Result(st.query, fs, FormData(fs),
                  (IF hid # 0 THEN <<"value">> ELSE <<>>) \o <<"submit">>)
  ELSE Result(st.query, st.fields, FormData(st.fields), <<"submit">>)

\* the listeners the DOMContentLoaded handler registers
FormListeners(d) ==
  IF ~d.form THEN {}
  ELSE (IF d.clearBtn THEN {"clearBtn"} ELSE {})
         \cup (IF d.clearSortsBtn THEN {"clearSortsBtn"} ELSE {})
         \cup {"sort", "x"}

----------------------------------------------------------------------------
(* Storage chart: src/static/storage.js *)

\* a window global is <<>> when undefined and <<array>> when set
OrEmptyArray(g) == IF g = <<>> THEN <<>> ELSE g[1]

Dataset(label, data) ==
  [label |-> label, data |-> data, borderWidth |-> 2, pointRadius |-> 3]

StorageChartsAlways(w, canvas) ==
  IF ~canvas THEN <<>>
  ELSE <<[type |-> "line", labels |-> OrEmptyArray(w.labels),
          datasets |-> <<Dataset("Root % Used", OrEmptyArray(w.rootPct)),
                         Dataset("Volume % Used", OrEmptyArray(w.volPct))>>]>>

\* the charts the script constructs when it runs
StorageCharts(w, canvas) ==
  LET labels == OrEmptyArray(w.labels)
      rootPct == OrEmptyArray(w.rootPct)
      volPct == OrEmptyArray(w.volPct)
  IN  IF ~canvas THEN <<>>
      ELSE IF Len(labels) = 0 THEN <<>>
      ELSE <<[type |-> "line", labels |-> labels,
              datasets |-> <<Dataset("Root % Used", rootPct),
                             Dataset("Volume % Used", volPct)>>]>>

----------------------------------------------------------------------------
(* The server, which renders the page from the request it receives *)

\* data-sort of each header: the request's sort parameter of the column
EchoSort(data) == [c \in Cols |-> SPGet(data, S_ \o c)]

\* the inputs of the form, each with the request's value of its name
EchoFields(fs, data) ==
  [i \in 1..Len(fs) |-> [fs[i] EXCEPT !.value = OrEmpty(SPGet(data, fs[i].name))]]

----------------------------------------------------------------------------
(* Initial states: a page the server has rendered, its script not yet run *)

BoundedSeq(S, n) == UNION {[1..k -> S] : k \in 0..n}

A == <<"a">>
B == <<"b">>
X == <<"x">>

\* "sx" starts with s but not with s_
ParamPool ==
  {Param(S_ \o A, ASC), Param(S_ \o B, UP), Param(S_ \o B, <<>>),
   Param(F_ \o A, X), Param(LIMIT, <<"5">>), Param(<<"s", "x">>, <<"1">>)}

Opt(S) == {<<>>} \cup {<<x>> : x \in S}

FieldPool ==
  {f1 \o f2 \o f3 \o f4 \o f5 :
     f1 \in Opt({Input(F_ \o A, "text", X)}),
     f2 \in Opt({Input(S_ \o A, "hidden", v) : v \in {<<>>, ASC}}),
     f3 \in Opt({Input(S_ \o B, "hidden", UP), Input(S_ \o B, "hidden", <<>>),
                 Input(S_ \o B, "text", <<>>)}),
     f4 \in Opt({Input(LIMIT, "text", <<"5">>),
                 Input(LIMIT, "text", <<"1", "+", "&", "f", "_", "a", "=", "x">>)}),
     f5 \in {<<Input(FORMAT, "hidden", HTML)>>}}

\* the pages the model starts from: every element present, or one missing
Doms ==
  LET all == [form |-> TRUE, clearBtn |-> TRUE, clearSortsBtn |-> TRUE,
              chips |-> TRUE, canvas |-> FALSE]
  IN  {all, [all EXCEPT !.form = FALSE], [all EXCEPT !.clearBtn = FALSE],
       [all EXCEPT !.clearSortsBtn = FALSE], [all EXCEPT !.chips = FALSE]}

Points == {10, 90}
Labels == {"d1", "d2"}

NoClick == [target |-> "none", col |-> Null, kind |-> Null, hit |-> FALSE]

Unsorted(ds) == \A c \in Cols : OrEmpty(ds[c]) = <<>>

InitCommon ==
  /\ pc = "start"
  /\ listeners = {}
  /\ charts = <<>>
  /\ effects = <<>>
  /\ submitted = <<>>
  /\ last = NoClick
  /\ before = [query |-> query, fields |-> fields, dataSort |-> dataSort]
  /\ clicks = [c \in Cols |-> 0]
  /\ sortOnly = Unsorted(dataSort)
  /\ run = [col |-> Null, n |-> 0]
  /\ nclicks = 0

InitUrl ==
  /\ page = "url"
  /\ dom \in Doms
  /\ query \in BoundedSeq(ParamPool, MaxParams)
  /\ fields = <<>>
  /\ dataSort = EchoSort(query)
  /\ win = [labels |-> <<>>, rootPct |-> <<>>, volPct |-> <<>>]

InitForm ==
  /\ page = "form"
  /\ dom \in Doms
  /\ fields \in FieldPool
  /\ query = FormData(fields)
  /\ dataSort = EchoSort(query)
  /\ win = [labels |-> <<>>, rootPct |-> <<>>, volPct |-> <<>>]

InitStorage ==
  /\ page = "storage"
  /\ dom \in [form : {FALSE}, clearBtn : {FALSE}, clearSortsBtn : {FALSE},
              chips : {FALSE}, canvas : BOOLEAN]
  /\ query = <<>>
  /\ fields = <<>>
  /\ dataSort = [c \in Cols |-> Null]
  /\ win \in [labels : Opt(BoundedSeq(Labels, MaxPoints)),
              rootPct : Opt(BoundedSeq(Points, MaxPoints)),
              volPct : Opt(BoundedSeq(Points, MaxPoints))]

Init == (InitUrl \/ InitForm \/ InitStorage) /\ InitCommon

----------------------------------------------------------------------------
(* The script runs once the document is parsed *)

Load ==
  /\ pc = "start"
  /\ pc' = "ready"
  /\ listeners' = IF page = "url" THEN UrlListeners(dom)
                  ELSE IF page = "form" THEN FormListeners(dom)
                  ELSE {}
  /\ charts' = IF page = "storage" THEN StorageCharts(win, dom.canvas) ELSE charts
  /\ UNCHANGED <<page, dom, dataSort, query, fields, win, effects, submitted,
                 last, before, clicks, sortOnly, run, nclicks>>

----------------------------------------------------------------------------
(* Clicks *)

State == [query |-> query, fields |-> fields, submitted |-> submitted, dataSort |-> dataSort]

Navigates(eff) == \E i \in 1..Len(eff) : IsNav(eff[i])

\* a click on `target` whose listeners, if any, returned res
Click(target, col, kind, hit, res, isSort, bound) ==
  /\ pc = "ready"
  /\ page \in {"url", "form"}
  /\ nclicks < bound
  /\ nclicks' = nclicks + 1
  /\ query' = res.query
  /\ fields' = res.fields
  /\ submitted' = res.submitted
  /\ effects' = res.effects
  /\ pc' = IF Navigates(res.effects) THEN "loading" ELSE "ready"
  /\ last' = [target |-> target, col |-> col, kind |-> kind, hit |-> hit]
  /\ before' = [query |-> query, fields |-> fields, dataSort |-> dataSort]
  /\ clicks' = IF isSort THEN [clicks EXCEPT ![col] = (@ + 1) % 3] ELSE clicks
  /\ sortOnly' = (sortOnly /\ isSort)
  /\ run' = IF ~isSort THEN [col |-> Null, n |-> 0]
            ELSE IF run.col = col /\ run.n \in {1, 2} THEN [col |-> col, n |-> run.n + 1]
            ELSE IF OrEmpty(dataSort[col]) = <<>> THEN [col |-> col, n |-> 1]
            ELSE [col |-> Null, n |-> 0]
  /\ UNCHANGED <<page, dom, dataSort, win, listeners, charts>>

ClickClearBtn ==
  /\ dom.clearBtn
  /\ Click("clearBtn", Null, Null, TRUE,
           IF "clearBtn" \notin listeners THEN Nothing(State)
           ELSE IF page = "url" THEN clearAll(State) ELSE formClearBtn(State),
           FALSE, MaxClicks)

ClickClearSortsBtn ==
  /\ dom.clearSortsBtn
  /\ Click("clearSortsBtn", Null, Null, TRUE,
           IF "clearSortsBtn" \notin listeners THEN Nothing(State)
           ELSE IF page = "url" THEN clearSorts(State) ELSE formClearSorts(State),
           FALSE, MaxClicks)

\* a click inside the header of column col, on its sort control or not
HeaderClick(bound) ==
  \E col \in Cols, onSort \in BOOLEAN :
    Click("header", col, Null, onSort,
          IF page = "url"
          THEN IF "th" \in listeners THEN thClick(State, col, onSort) ELSE Nothing(State)
          ELSE IF "sort" \in listeners /\ onSort THEN formSortClick(State, col)
          ELSE Nothing(State),
          onSort /\ listeners # {}, bound)

ClickHeader == HeaderClick(MaxClicks)

SortClick == HeaderClick(MaxSortClicks)

Kinds == {FILTER, SORT, <<"o">>, Null}
ChipCols == Cols \cup {Null}

\* a click among the chips: on the x of a chip, elsewhere in a chip, on a .x
\* outside every chip, or on none of them
ClickChips ==
  /\ page = "url" => dom.chips
  /\ \E inX \in BOOLEAN, inChip \in BOOLEAN :
       \E kind \in (IF inChip THEN Kinds ELSE {Null}), col \in (IF inChip THEN ChipCols ELSE {Null}) :
         Click("chips", col, kind, inX /\ inChip,
               IF page = "url"
               THEN IF "chips" \in listeners THEN chipsClick(State, inX, inChip, kind, col)
                    ELSE Nothing(State)
               ELSE IF "x" \in listeners /\ inX /\ inChip THEN formChipClick(State, kind, col)
               ELSE Nothing(State),
               FALSE, MaxClicks)

----------------------------------------------------------------------------
(* The navigation or submission completes: the server renders the new page *)

Render ==
  /\ pc = "loading"
  /\ pc' = "start"
  /\ listeners' = {}
  /\ LET request == IF effects[Len(effects)] = "submit" THEN submitted ELSE query
     IN  /\ query' = request
         /\ dataSort' = EchoSort(request)
         /\ fields' = EchoFields(fields, request)
  /\ UNCHANGED <<page, dom, win, charts, effects, submitted, last, before,
                 clicks, sortOnly, run, nclicks>>

Next == Load \/ ClickClearBtn \/ ClickClearSortsBtn \/ ClickHeader \/ ClickChips \/ Render

Spec == Init /\ [][Next]_vars

\* sessions of header clicks only
NextSortOnly == Load \/ SortClick \/ Render

SpecSort == Init /\ [][NextSortOnly]_vars

----------------------------------------------------------------------------
(* Properties *)

\* the last click's handlers have just returned: the state is as they left it
JustClicked == last.target # "none" /\ (pc = "loading" \/ ~Navigates(effects))

\* the script has registered its listeners on this page
Scripted == page \in {"url", "form"} /\ dom.form

OnSortControl == JustClicked /\ Scripted /\ last.target = "header" /\ last.hit
OnChipX == JustClicked /\ Scripted /\ last.target = "chips" /\ last.hit
OnClearBtn == JustClicked /\ Scripted /\ last.target = "clearBtn"
OnClearSortsBtn == JustClicked /\ Scripted /\ last.target = "clearSortsBtn"

Occurrences(q, name) == Cardinality({i \in 1..Len(q) : q[i].k = name})

\* the inputs of fs that are hidden and named name
HiddenNamed(fs, name) == {i \in 1..Len(fs) : fs[i].type = "hidden" /\ fs[i].name = name}

\* the documented cycle: none -> asc -> desc -> none
CycleNext(attr) ==
  IF attr = Null \/ attr = <<>> THEN ASC ELSE IF attr = ASC THEN DESC ELSE <<>>

\* C1: a click on a column's sort control writes asc for that column when the
\* header's data-sort is absent or empty, desc when it is asc, and the empty
\* value otherwise (URL parameter s_<col>, hidden input s_<col>); and with
\* the server echoing the value as data-sort, three successive clicks on one
\* column that start from its unsorted state end in its unsorted state.
C1_SortCycle ==
  /\ OnSortControl =>
       LET name == S_ \o last.col
           want == CycleNext(before.dataSort[last.col])
       IN  IF page = "url"
           THEN Occurrences(query, name) = 1 /\ SPGet(query, name) = want
           ELSE LET hid == FirstHiddenNamed(before.fields, name)
                IN  hid # 0 => fields[hid].value = want /\ submitted[hid].v = want
  /\ (run.n = 3 /\ pc = "ready") => OrEmpty(dataSort[run.col]) = <<>>

C1_Witness ==
  /\ run.n = 3 /\ pc = "ready" /\ Scripted
  /\ before.dataSort[run.col] = DESC
  /\ (page = "form" => HiddenNamed(fields, S_ \o run.col) # {})

\* C2: in the form variant a click on clearBtn navigates to a query string
\* with exactly the parameters limit and format=html, limit being the value
\* of the form's limit input (100 without one); no f_ or s_ parameter of the
\* previous state survives.
C2_ClearKeepsLimit ==
  (OnClearBtn /\ page = "form") =>
    LET limitInput == FirstNamed(before.fields, LIMIT)
        limit == IF limitInput = 0 THEN HUNDRED ELSE before.fields[limitInput].value
    IN  /\ effects = <<"href">>
        /\ query = <<Param(LIMIT, limit), Param(FORMAT, HTML)>>
        /\ \A i \in 1..Len(query) : ~StartsWith(query[i].k, F_) /\ ~StartsWith(query[i].k, S_)
        /\ fields = before.fields

C2_Witness ==
  /\ OnClearBtn /\ page = "form"
  /\ \E i \in 1..Len(before.query) : StartsWith(before.query[i].k, F_) /\ before.query[i].v # <<>>
  /\ \E i \in 1..Len(before.query) : StartsWith(before.query[i].k, S_) /\ before.query[i].v # <<>>
  /\ SPGet(query, LIMIT) = <<"1", "+", "&", "f", "_", "a", "=", "x">>

\* C3: a click on clearSortsBtn removes every sort and nothing else: in the
\* form variant every hidden input whose name starts with s_ is emptied and
\* every other field keeps its value, and the form is submitted so; in the URL
\* variant exactly the parameters whose key starts with s_ are deleted and
\* every other parameter keeps its key, value and place.
C3_ClearSortsOnly ==
  OnClearSortsBtn =>
    IF page = "url"
    THEN /\ query = SelectSeq(before.query, LAMBDA p : ~StartsWith(p.k, S_))
         /\ effects[Len(effects)] = "href"
    ELSE /\ Len(fields) = Len(before.fields)
         /\ \A i \in 1..Len(fields) :
              IF before.fields[i].type = "hidden" /\ StartsWith(before.fields[i].name, S_)
              THEN fields[i] = [before.fields[i] EXCEPT !.value = <<>>]
              ELSE fields[i] = before.fields[i]
         /\ submitted = FormData(fields)
         /\ effects[Len(effects)] = "submit"

C3_Witness ==
  /\ OnClearSortsBtn /\ page = "form"
  /\ \E i \in 1..Len(fields) : StartsWith(fields[i].name, S_) /\ before.fields[i].value # <<>>
                                 /\ fields[i].value = <<>>
  /\ \E i \in 1..Len(fields) : StartsWith(fields[i].name, F_) /\ fields[i].value # <<>>
  /\ \E i \in 1..Len(fields) : fields[i].name = LIMIT

\* C4: a click on the x of a chip with data-kind filter and data-col c clears
\* f_<c> only, with data-kind sort s_<c> only (deleted from the URL, set to
\* empty in the form); every other filter, sort and the limit stay, and the
\* page is then reloaded or the form submitted.
C4_ChipClearsOne ==
  (OnChipX /\ last.kind \in {FILTER, SORT} /\ last.col \in Cols) =>
    LET name == (IF last.kind = FILTER THEN F_ ELSE S_) \o last.col
    IN  IF page = "url"
        THEN /\ query = SelectSeq(before.query, LAMBDA p : p.k # name)
             /\ effects[Len(effects)] = "href"
        ELSE LET target == IF last.kind = FILTER THEN FirstNamed(before.fields, name)
                           ELSE FirstHiddenNamed(before.fields, name)
             IN  /\ Len(fields) = Len(before.fields)
                 /\ \A i \in 1..Len(fields) :
                      IF i = target THEN fields[i] = [before.fields[i] EXCEPT !.value = <<>>]
                      ELSE fields[i] = before.fields[i]
                 /\ submitted = FormData(fields)
                 /\ effects[Len(effects)] = "submit"

C4_Witness ==
  /\ OnChipX /\ last.kind = FILTER /\ last.col = A /\ page = "url"
  /\ SPHas(before.query, F_ \o A) /\ ~SPHas(query, F_ \o A)
  /\ SPHas(query, S_ \o A)

\* C5: the storage script creates no chart when the canvas is missing or
\* STORAGE_LABELS is undefined or empty; otherwise exactly one line chart
\* with the labels and the two datasets Root % Used and Volume % Used
\* carrying STORAGE_ROOT_PCT and STORAGE_VOL_PCT, an undefined series being
\* the empty array.
C5_StorageChart ==
  (page = "storage" /\ pc = "ready") =>
    IF ~dom.canvas \/ win.labels = <<>> \/ win.labels = << <<>> >>
    THEN charts = <<>>
    ELSE /\ Len(charts) = 1
         /\ charts[1].type = "line"
         /\ charts[1].labels = win.labels[1]
         /\ Len(charts[1].datasets) = 2
         /\ charts[1].datasets[1].label = "Root % Used"
         /\ charts[1].datasets[1].data = (IF win.rootPct = <<>> THEN <<>> ELSE win.rootPct[1])
         /\ charts[1].datasets[2].label = "Volume % Used"
         /\ charts[1].datasets[2].data = (IF win.volPct = <<>> THEN <<>> ELSE win.volPct[1])

C5_Witness ==
  /\ page = "storage" /\ pc = "ready" /\ Len(charts) = 1
  /\ win.rootPct = <<>> /\ win.volPct # <<>> /\ Len(charts[1].datasets[2].data) = MaxPoints

NavCount(eff) == Cardinality({i \in 1..Len(eff) : IsNav(eff[i])})

\* one navigation or submission, as the last thing the handlers did, carrying
\* the state as they left it
OneNavLast ==
  /\ NavCount(effects) = 1
  /\ IsNav(effects[Len(effects)])
  /\ effects[Len(effects)] = "submit" => submitted = FormData(fields)

\* no navigation, no submission, no change
NoEffect ==
  /\ effects = <<>>
  /\ pc = "ready"
  /\ query = before.query
  /\ fields = before.fields

Ignored ==
  /\ JustClicked /\ Scripted
  /\ \/ last.target = "header" /\ ~last.hit
     \/ last.target = "chips" /\ ~last.hit

\* the chip's x was clicked in the form variant and the chip lacks data-col
\* or data-kind
OnBareChipX == OnChipX /\ page = "form" /\ (last.col = Null \/ last.kind = Null)

\* C6 as stated: every click on a sort control, on a chip's x, on clearBtn or
\* on clearSortsBtn ends in exactly one assignment of location.href or one
\* form.submit(), after the state mutation; a click on a header outside its
\* sort control, or among the chips outside the x of a chip, triggers none
\* and changes no state.
C6_OneNavigationPerClick ==
  /\ (OnSortControl \/ OnChipX \/ OnClearBtn \/ OnClearSortsBtn) => OneNavLast
  /\ Ignored => NoEffect

\* C6 amended: as stated, except that in the form variant a click on the x of
\* a chip without data-col or data-kind submits nothing and changes nothing.
C6_OneNavigationUnlessBareChip ==
  /\ ((OnSortControl \/ OnChipX \/ OnClearBtn \/ OnClearSortsBtn) /\ ~OnBareChipX) => OneNavLast
  /\ (Ignored \/ OnBareChipX) => NoEffect

C6_Witness ==
  /\ OnSortControl /\ page = "form"
  /\ effects = <<"value", "submit">>
  /\ fields # before.fields

\* C7: in the URL variant clearAll deletes exactly the parameters whose key
\* starts with f_, starts with s_ or equals limit, every occurrence, and keeps
\* every other parameter with its value; no key of the result matches any of
\* the three patterns.
C7_ClearAllUrl ==
  (OnClearBtn /\ page = "url") =>
    /\ query = SelectSeq(before.query,
                         LAMBDA p : ~(StartsWith(p.k, F_) \/ StartsWith(p.k, S_) \/ p.k = LIMIT))
    /\ \A i \in 1..Len(query) :
         ~StartsWith(query[i].k, F_) /\ ~StartsWith(query[i].k, S_) /\ query[i].k # LIMIT
    /\ effects[Len(effects)] = "href"

C7_Witness ==
  /\ OnClearBtn /\ page = "url"
  /\ Occurrences(before.query, LIMIT) = 1
  /\ query = <<Param(<<"s", "x">>, <<"1">>)>>

\* the sort state a count of clicks stands for: 0 none, 1 asc, 2 desc
CountState(n) == IF n = 0 THEN <<>> ELSE IF n = 1 THEN ASC ELSE DESC

\* a sort click on column A leaves every parameter or field but s_A as it was
SortClickFrame ==
  OnSortControl =>
    LET name == S_ \o last.col
    IN  IF page = "url"
        THEN SelectSeq(query, LAMBDA p : p.k # name)
               = SelectSeq(before.query, LAMBDA p : p.k # name)
        ELSE /\ Len(fields) = Len(before.fields)
             /\ \A i \in 1..Len(fields) :
                  /\ fields[i].name = before.fields[i].name
                  /\ fields[i].type = before.fields[i].type
                  /\ fields[i].name # name => fields[i].value = before.fields[i].value

\* the th of column c holds the hidden input the form variant writes to
HasSortInput(c) == page = "form" => HiddenNamed(fields, S_ \o c) # {}

\* C8 as stated: a sort click on column A changes only s_A; and after any
\* sequence of sort clicks from the unsorted state, the server echoing each
\* value, each column's sort state is the number of clicks on it modulo 3.
C8_ColumnsIndependent ==
  /\ SortClickFrame
  /\ (sortOnly /\ Scripted /\ pc = "ready") =>
       \A c \in Cols : OrEmpty(dataSort[c]) = CountState(clicks[c])

\* C8 amended: the count determines the state of every column of the URL
\* variant, and in the form variant of every column whose header holds the
\* hidden input s_<col>.
C8_ColumnsIndependentWithInput ==
  /\ SortClickFrame
  /\ (sortOnly /\ Scripted /\ pc = "ready") =>
       \A c \in Cols : HasSortInput(c) => OrEmpty(dataSort[c]) = CountState(clicks[c])

C8_Witness ==
  /\ sortOnly /\ Scripted /\ pc = "ready" /\ page = "form"
  /\ clicks[A] = 2 /\ clicks[B] = 1
  /\ \A c \in Cols : HasSortInput(c)
  /\ SPHas(FormData(fields), F_ \o A)

\* C9: without an element qform neither table script registers a listener:
\* no click changes the URL or a form field, navigates or submits.
C9_NoFormNoHandlers ==
  (page \in {"url", "form"} /\ ~dom.form) =>
    /\ listeners = {}
    /\ effects = <<>>
    /\ pc # "loading"
    /\ submitted = <<>>
    /\ query = before.query
    /\ fields = before.fields

C9_Witness ==
  /\ page = "url" /\ ~dom.form /\ nclicks = 2
  /\ last.target = "header" /\ last.hit
  /\ dom.clearBtn /\ query # <<>>

====
